---- MODULE Spec2Model ----
(***************************************************************************)
(* Model of arduino-radar.ino: an HC-SR04 ultrasonic ranger on a servo     *)
(* that sweeps 0..180..0 degrees and prints one "<angle>,<value>" line per *)
(* visited angle.                                                          *)
(*                                                                         *)
(* Distances are held exactly, in units of 1/20000 cm, so that             *)
(* (dur * 0.0343) / 2 is the integer dur * 343.  The float NaN is the      *)
(* separate value NAN.  A printed value is the number of hundredths of a   *)
(* centimetre that Serial.println(x, 2) writes.                            *)
(***************************************************************************)
EXTENDS Integers, Sequences, FiniteSets, TLC

VARIABLES
  pc,         \* position of the single thread of control
  a,          \* the counter of the for loop that is running in loop()
  phase,      \* which for loop of loop() is running: "asc" or "desc"
  angle,      \* parameter of the current call of measureAndPrintAtAngle
  ping,       \* which of the three pingOnce calls of the visit is running
  du,         \* d1u, d2u, d3u : raw echo durations of the visit
  d,          \* d1, d2, d3    : distances of the visit (or NAN)
  dmed,       \* the filtered distance of the visit
  servo,      \* the angle last written to the servo
  trig,       \* level of the TRIG line
  lastDelay,  \* milliseconds of the blocking delay() served last
  lastLine,   \* the line written last on the serial port
  nStart,     \* number of START lines written
  owed,       \* calls of measureAndPrintAtAngle minus report lines written
  pinged,     \* a trigger pulse has been issued
  pulses,     \* echo measurements (pulseIn) made by the running pingOnce
  prevAngle,  \* parameter of the last call of measureAndPrintAtAngle that returned
  prevPhase,  \* for loop that made that call
  visitMs,    \* milliseconds since the current call of measureAndPrintAtAngle
  sinceTrig,  \* milliseconds since TRIG last went HIGH (since reset before)
  delaySum,   \* milliseconds of delay() served since pulseIn last returned
  steps,      \* what the current call of measureAndPrintAtAngle has done
  prevServo,  \* the angle written to the servo before the last one
  pulseUs     \* microseconds TRIG was held HIGH by the last trigger pulse

vars == <<pc, a, phase, angle, ping, du, d, dmed, servo, trig, lastDelay,
          lastLine, nStart, owed, pinged, pulses, prevAngle, prevPhase,
          visitMs, sinceTrig, delaySum, steps, prevServo, pulseUs>>

----------------------------------------------------------------------------
(* Constants of the sketch *)

\* mutant: a timeout of 30 ms
PULSE_TIMEOUT_US_30ms == 30 * 1000

PULSE_TIMEOUT_US == 20000
SETTLE_AFTER_MOVE_MS == 30
MIN_PING_PERIOD_MS == 60
INTER_SAMPLE_MS == 10
BOOT_DELAY_MS == 1000
TRIG_PULSE_US == 10
ANGLE_MAX == 180

\* SOUND_CM_PER_US / 2 = 0.0343 / 2 = 343 / 20000 : one microsecond of echo
\* is 343 distance units of 1/20000 cm
SOUND_UNITS_PER_US == 343
UNITS_PER_CM == 20000
MAX_RANGE_CM == 400

NAN == -1        \* the float NaN
Unset == -2      \* a local that has not been assigned yet
NoAngle == -999  \* no angle yet (servo not written, no call made)

\* number of sample echo durations strictly between timeout and the ceiling
NumEchoValues == 2

\* what pulseIn(ECHO, HIGH, PULSE_TIMEOUT_US) can return: 0 on timeout, else a
\* pulse width of 1 .. PULSE_TIMEOUT_US microseconds (a sample of them)
EchoDurations ==
  {0, 1} \cup {(i * PULSE_TIMEOUT_US) \div NumEchoValues : i \in 1..NumEchoValues}

\* a sample of the unsigned long values of dur, on both sides of the duration
\* whose distance is 400 cm (23323 us is below it, 23324 us above)
WideDurations ==
  {0, 1, 700, PULSE_TIMEOUT_US, 23323, 23324, 30000, 1000000}

----------------------------------------------------------------------------
(* pingOnce: conversion of an echo duration *)

isnan(x) == x = NAN

\* mutant: the test dur == 0 is left out
pingDistance_noTimeoutTest(dur) ==
  LET dist == dur * SOUND_UNITS_PER_US
  IN  IF dist > MAX_RANGE_CM * UNITS_PER_CM THEN NAN ELSE dist

\* mutant: the test d > 400.0f is left out
pingDistance_noRangeTest(dur) ==
  IF dur = 0 THEN NAN ELSE dur * SOUND_UNITS_PER_US

\* lines 25-29 of pingOnce: the value returned for the duration pulseIn gave
pingDistance(dur) ==
  IF dur = 0 THEN NAN
  ELSE LET dist == dur * SOUND_UNITS_PER_US
       IN  IF dist > MAX_RANGE_CM * UNITS_PER_CM THEN NAN ELSE dist

----------------------------------------------------------------------------
(* median3_ignoreNaN *)

\* if (!isnan(x)) v[n++] = x;
Push(st, x) ==
  IF isnan(x) THEN st
  ELSE [v |-> [st.v EXCEPT ![st.n] = x], n |-> st.n + 1]

\* mutant: the shifting while loop is left out, so nothing is sorted
InsertKey_noShift(v, j, key) == v

RECURSIVE InsertKey(_, _, _)
\* while (j>=0 && v[j]>key){ v[j+1]=v[j]; j--; }  v[j+1]=key;
InsertKey(v, j, key) ==
  IF j >= 0 /\ v[j] > key
    THEN InsertKey([v EXCEPT ![j + 1] = v[j]], j - 1, key)
    ELSE [v EXCEPT ![j + 1] = key]

RECURSIVE InsertionSort(_, _, _)
\* for (uint8_t i=1;i<n;i++){ float key=v[i]; int j=i-1; ... }
InsertionSort(v, i, n) ==
  IF i < n THEN InsertionSort(InsertKey(v, i - 1, v[i]), i + 1, n) ELSE v

\* mutant: the lower middle element v[(n-1)/2] instead of v[n/2]
median3_lowerMiddle(x, y, z) ==
  LET v0 == [i \in 0..2 |-> Unset]
      st == Push(Push(Push([v |-> v0, n |-> 0], x), y), z)
  IN  IF st.n = 0 THEN NAN
      ELSE InsertionSort(st.v, 1, st.n)[(st.n - 1) \div 2]

median3_ignoreNaN(x, y, z) ==
  LET v0 == [i \in 0..2 |-> Unset]
      st == Push(Push(Push([v |-> v0, n |-> 0], x), y), z)
  IN  IF st.n = 0 THEN NAN
      ELSE InsertionSort(st.v, 1, st.n)[st.n \div 2]

----------------------------------------------------------------------------
(* Serial *)

NoLine == [kind |-> "NONE", angle |-> NoAngle, na |-> FALSE, centi |-> 0]
StartLine == [kind |-> "START", angle |-> NoAngle, na |-> FALSE, centi |-> 0]

\* Serial.println(x, 2): x rounded to two fraction digits, as hundredths of cm
Print2(x) == (x + (UNITS_PER_CM \div 200)) \div (UNITS_PER_CM \div 100)

\* the line "<angle>,NA" or "<angle>,<dmed with 2 digits>"
ReportLine(ang, x) ==
  IF isnan(x) THEN [kind |-> "DATA", angle |-> ang, na |-> TRUE, centi |-> 0]
  ELSE [kind |-> "DATA", angle |-> ang, na |-> FALSE, centi |-> Print2(x)]

----------------------------------------------------------------------------
(* Time and the record of a visit *)

\* milliseconds pulseIn blocks: the whole timeout when no echo comes, else
\* the width of the echo pulse it measured (whole milliseconds)
EchoWaitMs(dur) ==
  IF dur = 0 THEN PULSE_TIMEOUT_US \div 1000 ELSE dur \div 1000

\* delay(ms), or the wait inside pulseIn: time passes
Elapse(ms) ==
  /\ visitMs' = visitMs + ms
  /\ sinceTrig' = sinceTrig + ms

\* delay(ms)
Delay(ms) ==
  /\ Elapse(ms)
  /\ delaySum' = delaySum + ms

\* one thing a visit does: "move", "delay" (n ms), "ping" (the n-th),
\* "filter" or "report"
Did(what, n) == <<what, n>>

----------------------------------------------------------------------------
(* State after reset, before setup() runs *)

NoLocals == [i \in 1..3 |-> Unset]

Init ==
  /\ pc = "s_pins"
  /\ a = 0
  /\ phase = "asc"
  /\ angle = NoAngle
  /\ ping = 0
  /\ du = NoLocals
  /\ d = NoLocals
  /\ dmed = Unset
  /\ servo = NoAngle
  /\ trig = "LOW"
  /\ lastDelay = 0
  /\ lastLine = NoLine
  /\ nStart = 0
  /\ owed = 0
  /\ pinged = FALSE
  /\ pulses = 0
  /\ prevAngle = NoAngle
  /\ prevPhase = "asc"
  /\ visitMs = 0
  /\ sinceTrig = 0
  /\ delaySum = 0
  /\ steps = <<>>
  /\ prevServo = NoAngle
  /\ pulseUs = 0

----------------------------------------------------------------------------
(* setup() *)

\* pinMode(TRIG, OUTPUT); pinMode(ECHO, INPUT); digitalWrite(TRIG, LOW);
SetupPins ==
  /\ pc = "s_pins"
  /\ trig' = "LOW"
  /\ pc' = "s_servo"
  /\ UNCHANGED <<a, phase, angle, ping, du, d, dmed, servo, lastDelay,
                 lastLine, nStart, owed, pinged, pulses, prevAngle, prevPhase>>
  /\ UNCHANGED <<visitMs, sinceTrig, delaySum, steps, prevServo, pulseUs>>

\* servoMotor.attach(SERVO_PIN); servoMotor.write(0);
SetupServo ==
  /\ pc = "s_servo"
  /\ servo' = 0
  /\ pc' = "s_delay"
  /\ UNCHANGED <<a, phase, angle, ping, du, d, dmed, trig, lastDelay,
                 lastLine, nStart, owed, pinged, pulses, prevAngle, prevPhase>>
  /\ prevServo' = servo
  /\ UNCHANGED <<visitMs, sinceTrig, delaySum, steps, pulseUs>>

\* Serial.begin(115200); delay(1000);
SetupDelay ==
  /\ pc = "s_delay"
  /\ lastDelay' = BOOT_DELAY_MS
  /\ pc' = "s_start"
  /\ UNCHANGED <<a, phase, angle, ping, du, d, dmed, servo, trig,
                 lastLine, nStart, owed, pinged, pulses, prevAngle, prevPhase>>
  /\ sinceTrig' = sinceTrig + BOOT_DELAY_MS
  /\ delaySum' = delaySum + BOOT_DELAY_MS
  /\ UNCHANGED <<visitMs, steps, prevServo, pulseUs>>

\* Serial.println("START"); and setup() returns
SetupStart ==
  /\ pc = "s_start"
  /\ lastLine' = StartLine
  /\ nStart' = nStart + 1
  /\ pc' = "loop"
  /\ UNCHANGED <<a, phase, angle, ping, du, d, dmed, servo, trig, lastDelay,
                 owed, pinged, pulses, prevAngle, prevPhase>>
  /\ UNCHANGED <<visitMs, sinceTrig, delaySum, steps, prevServo, pulseUs>>

----------------------------------------------------------------------------
(* loop() *)

\* mutant: the banner is printed by loop() as well
LoopEnter_printsBanner ==
  /\ pc = "loop"
  /\ a' = 0
  /\ phase' = "asc"
  /\ lastLine' = StartLine
  /\ nStart' = nStart + 1
  /\ pc' = "for_test"
  /\ UNCHANGED <<angle, ping, du, d, dmed, servo, trig, lastDelay,
                 owed, pinged, pulses, prevAngle, prevPhase>>
  /\ UNCHANGED <<visitMs, sinceTrig, delaySum, steps, prevServo, pulseUs>>

\* void loop() is entered: for (int a = 0; ...
LoopEnter ==
  /\ pc = "loop"
  /\ a' = 0
  /\ phase' = "asc"
  /\ pc' = "for_test"
  /\ UNCHANGED <<angle, ping, du, d, dmed, servo, trig, lastDelay, lastLine,
                 nStart, owed, pinged, pulses, prevAngle, prevPhase>>
  /\ UNCHANGED <<visitMs, sinceTrig, delaySum, steps, prevServo, pulseUs>>

\* the call measureAndPrintAtAngle(a): fresh parameter and locals
CallMeasure ==
  /\ angle' = a
  /\ owed' = owed + 1
  /\ du' = NoLocals
  /\ d' = NoLocals
  /\ dmed' = Unset
  /\ ping' = 0
  /\ pc' = "m_write"
  /\ UNCHANGED <<a, phase, servo, trig, lastDelay, lastLine, nStart, pinged,
                 pulses, prevAngle, prevPhase>>
  /\ visitMs' = 0
  /\ steps' = <<>>
  /\ UNCHANGED <<sinceTrig, delaySum, prevServo, pulseUs>>

\* mutant: a < 180 as the test of the first loop
AscTest_stopsBefore180 ==
  /\ pc = "for_test"
  /\ phase = "asc"
  /\ IF a < ANGLE_MAX
       THEN CallMeasure
       ELSE /\ a' = ANGLE_MAX
            /\ phase' = "desc"
            /\ pc' = "for_test"
            /\ UNCHANGED <<angle, ping, du, d, dmed, servo, trig, lastDelay,
                           lastLine, nStart, owed, pinged, pulses, prevAngle,
                           prevPhase, visitMs, sinceTrig, delaySum, steps, prevServo, pulseUs>>

\* mutant: loop() returns after the first loop, there is no descending loop
AscTest_noDescent ==
  /\ pc = "for_test"
  /\ phase = "asc"
  /\ IF a <= ANGLE_MAX
       THEN CallMeasure
       ELSE /\ pc' = "loop"
            /\ UNCHANGED <<a, phase, angle, ping, du, d, dmed, servo, trig,
                           lastDelay, lastLine, nStart, owed, pinged, pulses,
                           prevAngle, prevPhase, visitMs, sinceTrig, delaySum,
                           steps, prevServo, pulseUs>>

\* for (int a = 0; a <= 180; ...) measureAndPrintAtAngle(a);
\* when the test fails the second loop starts: for (int a = 180; ...
AscTest ==
  /\ pc = "for_test"
  /\ phase = "asc"
  /\ IF a <= ANGLE_MAX
       THEN CallMeasure
       ELSE /\ a' = ANGLE_MAX
            /\ phase' = "desc"
            /\ pc' = "for_test"
            /\ UNCHANGED <<angle, ping, du, d, dmed, servo, trig, lastDelay,
                           lastLine, nStart, owed, pinged, pulses, prevAngle,
                           prevPhase, visitMs, sinceTrig, delaySum, steps, prevServo, pulseUs>>

\* mutant: a >= -1 as the test of the second loop
DescTest_pastZero ==
  /\ pc = "for_test"
  /\ phase = "desc"
  /\ IF a >= -1
       THEN CallMeasure
       ELSE /\ pc' = "loop"
            /\ UNCHANGED <<a, phase, angle, ping, du, d, dmed, servo, trig,
                           lastDelay, lastLine, nStart, owed, pinged, pulses,
                           prevAngle, prevPhase, visitMs, sinceTrig, delaySum, steps, prevServo, pulseUs>>

\* for (...; a >= 0; ...) measureAndPrintAtAngle(a);
\* when the test fails loop() returns and is called again
DescTest ==
  /\ pc = "for_test"
  /\ phase = "desc"
  /\ IF a >= 0
       THEN CallMeasure
       ELSE /\ pc' = "loop"
            /\ UNCHANGED <<a, phase, angle, ping, du, d, dmed, servo, trig,
                           lastDelay, lastLine, nStart, owed, pinged, pulses,
                           prevAngle, prevPhase, visitMs, sinceTrig, delaySum, steps, prevServo, pulseUs>>

\* ++a of the first loop, --a of the second
ForInc ==
  /\ pc = "for_inc"
  /\ a' = IF phase = "asc" THEN a + 1 ELSE a - 1
  /\ pc' = "for_test"
  /\ UNCHANGED <<phase, angle, ping, du, d, dmed, servo, trig, lastDelay,
                 lastLine, nStart, owed, pinged, pulses, prevAngle, prevPhase>>
  /\ UNCHANGED <<visitMs, sinceTrig, delaySum, steps, prevServo, pulseUs>>

----------------------------------------------------------------------------
(* measureAndPrintAtAngle(angle) *)

\* servoMotor.write(angle);
MoveServo ==
  /\ pc = "m_write"
  /\ servo' = angle
  /\ pc' = "m_settle"
  /\ UNCHANGED <<a, phase, angle, ping, du, d, dmed, trig, lastDelay,
                 lastLine, nStart, owed, pinged, pulses, prevAngle, prevPhase>>
  /\ prevServo' = servo
  /\ steps' = Append(steps, Did("move", 0))
  /\ UNCHANGED <<visitMs, sinceTrig, delaySum, pulseUs>>

\* mutant: the settle wait is merged with the cadence wait served just before
Settle_mergedWithCadence ==
  /\ pc = "m_settle"
  /\ lastDelay' = SETTLE_AFTER_MOVE_MS
  /\ ping' = 1
  /\ pulses' = 0
  /\ pc' = "p_low"
  /\ UNCHANGED <<a, phase, angle, du, d, dmed, servo, trig, lastLine, nStart,
                 owed, pinged, prevAngle, prevPhase>>
  /\ Delay(IF lastDelay = MIN_PING_PERIOD_MS THEN 0 ELSE SETTLE_AFTER_MOVE_MS)
  /\ steps' = Append(steps, Did("delay", SETTLE_AFTER_MOVE_MS))
  /\ UNCHANGED <<prevServo, pulseUs>>

\* delay(SETTLE_AFTER_MOVE_MS); then the first pingOnce is called
Settle ==
  /\ pc = "m_settle"
  /\ lastDelay' = SETTLE_AFTER_MOVE_MS
  /\ ping' = 1
  /\ pulses' = 0
  /\ pc' = "p_low"
  /\ UNCHANGED <<a, phase, angle, du, d, dmed, servo, trig, lastLine, nStart,
                 owed, pinged, prevAngle, prevPhase>>
  /\ Delay(SETTLE_AFTER_MOVE_MS)
  /\ steps' = Append(steps, Did("delay", SETTLE_AFTER_MOVE_MS))
  /\ UNCHANGED <<prevServo, pulseUs>>

\* pingOnce: digitalWrite(TRIG, LOW); delayMicroseconds(2);
TrigLow ==
  /\ pc = "p_low"
  /\ trig' = "LOW"
  /\ pc' = "p_high"
  /\ UNCHANGED <<a, phase, angle, ping, du, d, dmed, servo, lastDelay,
                 lastLine, nStart, owed, pinged, pulses, prevAngle, prevPhase>>
  /\ UNCHANGED <<visitMs, sinceTrig, delaySum, steps, prevServo, pulseUs>>

\* pingOnce: digitalWrite(TRIG, HIGH); delayMicroseconds(10);
TrigHigh ==
  /\ pc = "p_high"
  /\ trig' = "HIGH"
  /\ pinged' = TRUE
  /\ pc' = "p_fall"
  /\ UNCHANGED <<a, phase, angle, ping, du, d, dmed, servo, lastDelay,
                 lastLine, nStart, owed, pulses, prevAngle, prevPhase>>
  /\ sinceTrig' = 0
  /\ pulseUs' = TRIG_PULSE_US
  /\ steps' = Append(steps, Did("ping", ping))
  /\ UNCHANGED <<visitMs, delaySum, prevServo>>

\* mutant: the second digitalWrite(TRIG, LOW) is left out
TrigFall_leftHigh ==
  /\ pc = "p_fall"
  /\ pc' = "p_echo"
  /\ UNCHANGED <<a, phase, angle, ping, du, d, dmed, servo, trig, lastDelay,
                 lastLine, nStart, owed, pinged, pulses, prevAngle, prevPhase>>
  /\ UNCHANGED <<visitMs, sinceTrig, delaySum, steps, prevServo, pulseUs>>

\* pingOnce: digitalWrite(TRIG, LOW);
TrigFall ==
  /\ pc = "p_fall"
  /\ trig' = "LOW"
  /\ pc' = "p_echo"
  /\ UNCHANGED <<a, phase, angle, ping, du, d, dmed, servo, lastDelay,
                 lastLine, nStart, owed, pinged, pulses, prevAngle, prevPhase>>
  /\ UNCHANGED <<visitMs, sinceTrig, delaySum, steps, prevServo, pulseUs>>

\* mutant: a ping that timed out is triggered again until an echo comes
Echo_retriesOnTimeout(D) ==
  /\ pc = "p_echo"
  /\ \E dur \in D :
       IF dur = 0
         THEN /\ pc' = "p_fall"
              /\ trig' = "HIGH"
              /\ sinceTrig' = 0
              /\ UNCHANGED <<du, d, pulses, visitMs, delaySum>>
         ELSE /\ du' = [du EXCEPT ![ping] = dur]
              /\ d' = [d EXCEPT ![ping] = pingDistance(dur)]
              /\ Elapse(EchoWaitMs(dur))
              /\ pulses' = pulses + 1
              /\ delaySum' = 0
              /\ pc' = IF ping < 3 THEN "m_gap" ELSE "m_median"
              /\ UNCHANGED trig
  /\ UNCHANGED <<a, phase, angle, ping, dmed, servo, lastDelay,
                 lastLine, nStart, owed, pinged, prevAngle, prevPhase>>
  /\ UNCHANGED <<steps, prevServo, pulseUs>>

\* pingOnce: dur = pulseIn(ECHO, HIGH, PULSE_TIMEOUT_US); the conversion and
\* the return into d1, d2 or d3.  D is what pulseIn can give.
Echo(D) ==
  /\ pc = "p_echo"
  /\ \E dur \in D :
       /\ du' = [du EXCEPT ![ping] = dur]
       /\ d' = [d EXCEPT ![ping] = pingDistance(dur)]
       /\ Elapse(EchoWaitMs(dur))
  /\ pulses' = pulses + 1
  /\ pc' = IF ping < 3 THEN "m_gap" ELSE "m_median"
  /\ UNCHANGED <<a, phase, angle, ping, dmed, servo, trig, lastDelay,
                 lastLine, nStart, owed, pinged, prevAngle, prevPhase>>
  /\ delaySum' = 0
  /\ UNCHANGED <<steps, prevServo, pulseUs>>

\* mutant: the samples of a visit are MIN_PING_PERIOD_MS apart
Gap_waitsPingPeriod ==
  /\ pc = "m_gap"
  /\ lastDelay' = MIN_PING_PERIOD_MS
  /\ ping' = ping + 1
  /\ pulses' = 0
  /\ pc' = "p_low"
  /\ UNCHANGED <<a, phase, angle, du, d, dmed, servo, trig, lastLine, nStart,
                 owed, pinged, prevAngle, prevPhase>>
  /\ Delay(MIN_PING_PERIOD_MS)
  /\ steps' = Append(steps, Did("delay", INTER_SAMPLE_MS))
  /\ UNCHANGED <<prevServo, pulseUs>>

\* mutant: a ping that returned NaN is made again
Gap_retriesInvalid ==
  /\ pc = "m_gap"
  /\ lastDelay' = INTER_SAMPLE_MS
  /\ ping' = IF isnan(d[ping]) THEN ping ELSE ping + 1
  /\ pulses' = 0
  /\ pc' = "p_low"
  /\ UNCHANGED <<a, phase, angle, du, d, dmed, servo, trig, lastLine, nStart,
                 owed, pinged, prevAngle, prevPhase>>
  /\ Delay(INTER_SAMPLE_MS)
  /\ steps' = Append(steps, Did("delay", INTER_SAMPLE_MS))
  /\ UNCHANGED <<prevServo, pulseUs>>

\* delay(10); then the next pingOnce is called
Gap ==
  /\ pc = "m_gap"
  /\ lastDelay' = INTER_SAMPLE_MS
  /\ ping' = ping + 1
  /\ pulses' = 0
  /\ pc' = "p_low"
  /\ UNCHANGED <<a, phase, angle, du, d, dmed, servo, trig, lastLine, nStart,
                 owed, pinged, prevAngle, prevPhase>>
  /\ Delay(INTER_SAMPLE_MS)
  /\ steps' = Append(steps, Did("delay", INTER_SAMPLE_MS))
  /\ UNCHANGED <<prevServo, pulseUs>>

\* float dmed = median3_ignoreNaN(d1, d2, d3);
Filter ==
  /\ pc = "m_median"
  /\ dmed' = median3_ignoreNaN(d[1], d[2], d[3])
  /\ pc' = "m_print"
  /\ UNCHANGED <<a, phase, angle, ping, du, d, servo, trig, lastDelay,
                 lastLine, nStart, owed, pinged, pulses, prevAngle, prevPhase>>
  /\ steps' = Append(steps, Did("filter", 0))
  /\ UNCHANGED <<visitMs, sinceTrig, delaySum, prevServo, pulseUs>>

\* mutant: nothing is printed when the filter has no data
Report_skipsNoData ==
  /\ pc = "m_print"
  /\ IF isnan(dmed)
       THEN UNCHANGED <<lastLine, owed>>
       ELSE lastLine' = ReportLine(angle, dmed) /\ owed' = owed - 1
  /\ pc' = "m_cadence"
  /\ UNCHANGED <<a, phase, angle, ping, du, d, dmed, servo, trig, lastDelay,
                 nStart, pinged, pulses, prevAngle, prevPhase>>
  /\ steps' = Append(steps, Did("report", 0))
  /\ UNCHANGED <<visitMs, sinceTrig, delaySum, prevServo, pulseUs>>

\* mutant: the value printed last is printed again when the filter has no data
Report_holdsLastValue ==
  /\ pc = "m_print"
  /\ lastLine' = IF isnan(dmed) /\ lastLine.kind = "DATA"
                   THEN [lastLine EXCEPT !.angle = angle]
                   ELSE ReportLine(angle, dmed)
  /\ owed' = owed - 1
  /\ pc' = "m_cadence"
  /\ UNCHANGED <<a, phase, angle, ping, du, d, dmed, servo, trig, lastDelay,
                 nStart, pinged, pulses, prevAngle, prevPhase>>
  /\ steps' = Append(steps, Did("report", 0))
  /\ UNCHANGED <<visitMs, sinceTrig, delaySum, prevServo, pulseUs>>

\* Serial.print(angle); Serial.print(','); Serial.println("NA" or dmed, 2);
Report ==
  /\ pc = "m_print"
  /\ lastLine' = ReportLine(angle, dmed)
  /\ owed' = owed - 1
  /\ pc' = "m_cadence"
  /\ UNCHANGED <<a, phase, angle, ping, du, d, dmed, servo, trig, lastDelay,
                 nStart, pinged, pulses, prevAngle, prevPhase>>
  /\ steps' = Append(steps, Did("report", 0))
  /\ UNCHANGED <<visitMs, sinceTrig, delaySum, prevServo, pulseUs>>

\* delay(MIN_PING_PERIOD_MS); and measureAndPrintAtAngle returns
Cadence ==
  /\ pc = "m_cadence"
  /\ lastDelay' = MIN_PING_PERIOD_MS
  /\ prevAngle' = angle
  /\ prevPhase' = phase
  /\ pc' = "for_inc"
  /\ UNCHANGED <<a, phase, angle, ping, du, d, dmed, servo, trig, lastLine,
                 nStart, owed, pinged, pulses>>
  /\ Delay(MIN_PING_PERIOD_MS)
  /\ steps' = Append(steps, Did("delay", MIN_PING_PERIOD_MS))
  /\ UNCHANGED <<prevServo, pulseUs>>

----------------------------------------------------------------------------
(* The program: setup() once, then loop() again and again *)

PulseIn == Echo(EchoDurations)

Next ==
  \/ SetupPins
  \/ SetupServo
  \/ SetupDelay
  \/ SetupStart
  \/ LoopEnter
  \/ AscTest
  \/ DescTest
  \/ ForInc
  \/ MoveServo
  \/ Settle
  \/ TrigLow
  \/ TrigHigh
  \/ TrigFall
  \/ PulseIn
  \/ Gap
  \/ Filter
  \/ Report
  \/ Cadence

Spec == Init /\ [][Next]_vars

----------------------------------------------------------------------------
(* The program with each ping either timing out or echoing: the two         *)
(* outcomes of a ping, with one duration for the echo                       *)

PingOutcomes == {0, PULSE_TIMEOUT_US}

PulseInOutcome == Echo(PingOutcomes)

OutcomeNext ==
  \/ SetupPins
  \/ SetupServo
  \/ SetupDelay
  \/ SetupStart
  \/ LoopEnter
  \/ AscTest
  \/ DescTest
  \/ ForInc
  \/ MoveServo
  \/ Settle
  \/ TrigLow
  \/ TrigHigh
  \/ TrigFall
  \/ PulseInOutcome
  \/ Gap
  \/ Filter
  \/ Report
  \/ Cadence

\* the control loop is the only thread and always takes its next step
FairSpec == Init /\ [][OutcomeNext]_vars /\ WF_vars(OutcomeNext)

----------------------------------------------------------------------------
(* One visit, with pulseIn free to return any duration an unsigned long     *)
(* holds: the first call of measureAndPrintAtAngle, from its first pingOnce *)

RangerInit ==
  /\ pc = "p_low"
  /\ a = 0
  /\ phase = "asc"
  /\ angle = 0
  /\ ping = 1
  /\ du = NoLocals
  /\ d = NoLocals
  /\ dmed = Unset
  /\ servo = 0
  /\ trig = "LOW"
  /\ lastDelay = SETTLE_AFTER_MOVE_MS
  /\ lastLine = StartLine
  /\ nStart = 1
  /\ owed = 1
  /\ pinged = FALSE
  /\ pulses = 0
  /\ prevAngle = NoAngle
  /\ prevPhase = "asc"
  /\ visitMs = SETTLE_AFTER_MOVE_MS
  /\ sinceTrig = BOOT_DELAY_MS + SETTLE_AFTER_MOVE_MS
  /\ delaySum = BOOT_DELAY_MS + SETTLE_AFTER_MOVE_MS
  /\ steps = <<Did("move", 0), Did("delay", SETTLE_AFTER_MOVE_MS)>>
  /\ prevServo = 0
  /\ pulseUs = 0

AnyPulseIn == Echo(WideDurations)

RangerNext ==
  \/ TrigLow
  \/ TrigHigh
  \/ TrigFall
  \/ AnyPulseIn
  \/ Gap
  \/ Filter
  \/ Report
  \/ Cadence

RangerSpec == RangerInit /\ [][RangerNext]_vars

----------------------------------------------------------------------------
(* Positions inside measureAndPrintAtAngle *)

SetupPcs == {"s_pins", "s_servo", "s_delay", "s_start"}
BeforeReportPcs ==
  {"m_write", "m_settle", "p_low", "p_high", "p_fall", "p_echo", "m_gap",
   "m_median", "m_print"}
VisitPcs == BeforeReportPcs \cup {"m_cadence"}

InVisit == pc \in VisitPcs
JustReported == pc = "m_cadence"
Valid(x) == x # NAN /\ x # Unset

----------------------------------------------------------------------------
(* C1 *)

\* the visit that follows the visit of angle x made by the for loop ph
NextVisit(ph, x) ==
  IF x = NoAngle THEN <<"asc", 0>>
  ELSE IF ph = "asc"
    THEN (IF x < 180 THEN <<"asc", x + 1>> ELSE <<"desc", 180>>)
    ELSE (IF x > 0 THEN <<"desc", x - 1>> ELSE <<"asc", 0>>)

\* C1 as stated: every measured angle differs from the angle measured before
\* it by exactly +1 or -1 (so 179 follows 180, and 1 follows the closing 0).
C1_StepIsPlusMinusOne ==
  (InVisit /\ prevAngle # NoAngle) =>
     (angle = prevAngle + 1 \/ angle = prevAngle - 1)

\* C1 amended: the measured angles are 0,1,...,180,180,179,...,1,0,0,1,...:
\* inside a directional pass each step is +1 (ascending) or -1 (descending),
\* and each turnaround angle is measured twice in a row, once as the last
\* angle of one pass and once as the first angle of the next.
C1_SweepOrder ==
  InVisit => <<phase, angle>> = NextVisit(prevPhase, prevAngle)

\* the next repetition of loop() starts by measuring 0 again, right after
\* the 0 that ended the descending pass
C1_Witness ==
  InVisit /\ phase = "asc" /\ angle = 0 /\ prevPhase = "desc" /\ prevAngle = 0

----------------------------------------------------------------------------
(* C2 *)

\* C2: every call of measureAndPrintAtAngle writes exactly one report line,
\* whatever the pings gave: the calls made exceed the lines written by one
\* from the call until the line is written and by nothing at any other
\* moment, and the line written carries the angle the servo was last sent to.
C2_OneLinePerVisit ==
  /\ owed = (IF pc \in BeforeReportPcs THEN 1 ELSE 0)
  /\ JustReported =>
       /\ lastLine.kind = "DATA"
       /\ lastLine.angle = angle
       /\ lastLine.angle = servo

\* a visit whose pings were invalid, valid, invalid has written its line
C2_Witness ==
  /\ JustReported /\ owed = 0 /\ angle = 45
  /\ isnan(d[1]) /\ Valid(d[2]) /\ isnan(d[3])
  /\ lastLine.angle = 45

----------------------------------------------------------------------------
(* C3, C4 *)

ValidInputs(x, y, z) == SelectSeq(<<x, y, z>>, LAMBDA e : ~isnan(e))

Occurrences(s, e) == Cardinality({i \in 1..Len(s) : s[i] = e})

\* the ascending rearrangement of the sequence s
Ascending(s) ==
  CHOOSE t \in [1..Len(s) -> {s[i] : i \in 1..Len(s)}] :
    /\ \A i \in 1..Len(s) : Occurrences(t, s[i]) = Occurrences(s, s[i])
    /\ \A i \in 1..Len(s), j \in 1..Len(s) : i < j => t[i] <= t[j]

\* filter the valid inputs, sort them ascending, take index floor(n/2)
\* (sequences are numbered from 1, the array of the claim from 0)
ReferenceMedian(x, y, z) ==
  LET s == ValidInputs(x, y, z)
  IN  IF Len(s) = 0 THEN NAN ELSE Ascending(s)[(Len(s) \div 2) + 1]

\* C3: the filter returns NaN when no input is valid and otherwise the element
\* at index floor(n/2) of the n valid inputs sorted ascending.
C3_MedianIsReference ==
  pc = "m_print" => dmed = ReferenceMedian(d[1], d[2], d[3])

\* three different valid inputs, largest first and smallest second: the
\* third is returned
C3_Witness ==
  /\ pc = "m_print"
  /\ Valid(d[1]) /\ Valid(d[2]) /\ Valid(d[3])
  /\ d[2] < d[3] /\ d[3] < d[1]
  /\ dmed = d[3]

\* C4: with exactly two valid inputs the filter returns the larger of them,
\* whichever argument position holds the invalid one.
C4_TwoValidGivesLarger ==
  pc = "m_print" =>
    \A i \in 1..3, j \in 1..3, k \in 1..3 :
      (/\ {i, j, k} = 1..3
       /\ isnan(d[k]) /\ ~isnan(d[i]) /\ ~isnan(d[j])
       /\ d[i] <= d[j]) => dmed = d[j]

\* first argument invalid, the larger valid value ahead of the smaller
C4_Witness ==
  /\ pc = "m_print"
  /\ isnan(d[1]) /\ Valid(d[2]) /\ Valid(d[3]) /\ d[2] > d[3]
  /\ dmed = d[2]

----------------------------------------------------------------------------
(* C6 *)

\* C6: the value on a report line is NA exactly when the three pings of that
\* visit were all invalid, and otherwise it is the printed form of a valid
\* distance one of these three pings returned.
C6_ReportedValueIsOfThisVisit ==
  JustReported =>
    /\ lastLine.na <=> (\A i \in 1..3 : isnan(d[i]))
    /\ ~lastLine.na =>
         \E i \in 1..3 : Valid(d[i]) /\ lastLine.centi = Print2(d[i])

\* a later visit whose only valid ping was the second one
C6_Witness ==
  /\ JustReported /\ angle = 1 /\ prevAngle = 0
  /\ isnan(d[1]) /\ Valid(d[2]) /\ isnan(d[3])
  /\ ~lastLine.na /\ lastLine.centi = Print2(d[2])

----------------------------------------------------------------------------
(* C9 *)

\* C9: every angle sent to the servo and every angle written on a report line
\* is within 0..180, also where a loop counter has stepped past its bound.
C9_AnglesInRange ==
  /\ servo = NoAngle => pc \in {"s_pins", "s_servo"}
  /\ servo # NoAngle => servo \in 0..180
  /\ InVisit => angle \in 0..180
  /\ lastLine.kind = "DATA" => lastLine.angle \in 0..180

\* the counter of the descending loop has passed 0
C9_Witness ==
  pc = "for_test" /\ phase = "desc" /\ a = -1 /\ servo = 0 /\ lastLine.angle = 0

----------------------------------------------------------------------------
(* C5 *)

PingReturned == pc \in {"m_gap", "m_median"}

\* C5: pingOnce returns NaN for the duration 0 of a timeout; for a duration
\* dur > 0 it returns dur * 0.0343 / 2 cm (dur * 343 units of 1/20000 cm) when
\* that is at most 400 cm and NaN when it is more; and each call has made
\* exactly one echo measurement when it returns.
C5_PingOnceResult ==
  /\ \A i \in 1..3 :
       du[i] # Unset =>
         IF du[i] = 0 THEN isnan(d[i])
         ELSE IF du[i] * 343 <= 400 * UNITS_PER_CM
           THEN d[i] = du[i] * 343
           ELSE isnan(d[i])
  /\ pulses <= 1
  /\ PingReturned => pulses = 1

\* a timeout, the last duration within 400 cm and the first one beyond it
C5_Witness ==
  /\ pc = "m_median"
  /\ du[1] = 0 /\ isnan(d[1])
  /\ du[2] = 23323 /\ d[2] = 23323 * 343
  /\ du[3] = 23324 /\ isnan(d[3])
  /\ pulses = 1

----------------------------------------------------------------------------
(* C8 *)

\* C8: START is written exactly once, by setup(), right after the 1000 ms
\* delay; as long as it has not been written no ping has been issued and no
\* line has been written, and no repetition of loop() writes it again.
C8_StartOnce ==
  /\ [](/\ nStart <= 1
        /\ nStart = 0 <=> pc \in SetupPcs
        /\ nStart = 0 => (~pinged /\ lastLine.kind = "NONE" /\ owed = 0))
  /\ [][nStart' # nStart =>
          (/\ nStart' = 1
           /\ lastDelay = BOOT_DELAY_MS
           /\ lastLine' = StartLine)]_vars

\* loop() is entered for the second time and START has been written once
C8_Witness ==
  pc = "loop" /\ nStart = 1 /\ prevPhase = "desc" /\ prevAngle = 0 /\ pinged

----------------------------------------------------------------------------
(* C10 *)

InRangeUnits(x) == 0 < x /\ x <= MAX_RANGE_CM * UNITS_PER_CM

\* C10: every valid distance pingOnce returns, and so every number the filter
\* receives, returns and the report line shows, is more than 0 cm and at most
\* 400 cm, whatever duration the echo measurement gave.
C10_ValidDistanceInRange ==
  /\ \A i \in 1..3 : Valid(d[i]) => InRangeUnits(d[i])
  /\ Valid(dmed) => InRangeUnits(dmed)
  /\ (lastLine.kind = "DATA" /\ ~lastLine.na) =>
       (0 < lastLine.centi /\ lastLine.centi <= MAX_RANGE_CM * 100)

\* the shortest echo, the longest one within range and one beyond the range
C10_Witness ==
  /\ JustReported
  /\ du[1] = 1 /\ Valid(d[1])
  /\ du[2] = 23323 /\ Valid(d[2])
  /\ du[3] = 30000 /\ isnan(d[3])
  /\ dmed = d[2] /\ ~lastLine.na

----------------------------------------------------------------------------
(* C7 *)

\* C7: the sweep never halts.  With the control loop always taking its next
\* step and whatever the pings give, every angle of 0..180 is reported again
\* and again, a next step exists in every state, and a visit in which all
\* three pings timed out reports NA.
C7_SweepNeverHalts ==
  /\ \A x \in 0..ANGLE_MAX : []<>(JustReported /\ lastLine.angle = x)
  /\ [](ENABLED OutcomeNext)
  /\ []((JustReported /\ \A i \in 1..3 : du[i] = 0) => lastLine.na)

\* the first visit of the next repetition of loop(), every ping timed out
C7_Witness ==
  /\ JustReported /\ phase = "asc" /\ angle = 0 /\ prevPhase = "desc"
  /\ \A i \in 1..3 : du[i] = 0
  /\ lastLine.na /\ lastLine.angle = 0

----------------------------------------------------------------------------
(* C11 *)

\* what one complete visit does, in order
FullVisit ==
  << Did("move", 0), Did("delay", SETTLE_AFTER_MOVE_MS),
     Did("ping", 1), Did("delay", INTER_SAMPLE_MS),
     Did("ping", 2), Did("delay", INTER_SAMPLE_MS),
     Did("ping", 3), Did("filter", 0), Did("report", 0),
     Did("delay", MIN_PING_PERIOD_MS) >>

IsPrefix(s, t) == Len(s) <= Len(t) /\ s = SubSeq(t, 1, Len(s))

\* C11: a visit does these things in this order and nothing else: servo
\* command, 30 ms wait, ping 1, 10 ms wait, ping 2, 10 ms wait, ping 3, filter,
\* report line, 60 ms wait.  So what a visit has done so far is always a
\* beginning of that list, a visit that has returned has done all of it (three
\* pings, none repeated, per servo command), and the servo is commanded only as
\* the first thing of a visit.
C11_VisitStepOrder ==
  /\ IsPrefix(steps, FullVisit)
  /\ (pc \in {"for_inc", "for_test", "loop"} /\ prevAngle # NoAngle) =>
        steps = FullVisit
  /\ JustReported => steps = SubSeq(FullVisit, 1, 9)
  /\ (InVisit /\ servo = angle /\ pc # "m_write") => Len(steps) >= 1
  /\ (InVisit /\ pc = "m_write") => steps = <<>>

\* a visit whose first ping was invalid goes on to its second ping
C11_Witness ==
  /\ pc = "p_fall" /\ ping = 2 /\ isnan(d[1])
  /\ steps = SubSeq(FullVisit, 1, 5)

----------------------------------------------------------------------------
(* C12 *)

\* C12: between the return of the third ping of a visit and the trigger of
\* the first ping of the next visit at least 60 + 30 = 90 ms of delay() are
\* served, at the turnarounds and across calls of loop() as well.
C12_CadenceAndSettleBothServed ==
  (pc = "p_high" /\ ping = 1 /\ prevAngle # NoAngle) =>
     delaySum >= MIN_PING_PERIOD_MS + SETTLE_AFTER_MOVE_MS

\* the first ping of the first visit of the next call of loop()
C12_Witness ==
  /\ pc = "p_high" /\ ping = 1 /\ phase = "asc" /\ angle = 0
  /\ prevPhase = "desc" /\ prevAngle = 0
  /\ delaySum = 90

----------------------------------------------------------------------------
(* C13 *)

\* C13: every trigger pulse starts at least MIN_PING_PERIOD_MS = 60 ms after
\* the trigger pulse before it.
C13_MinPingPeriod ==
  (pc = "p_high" /\ pinged) => sinceTrig >= MIN_PING_PERIOD_MS

----------------------------------------------------------------------------
(* C14 *)

\* C14: a visit takes at least 110 ms (30 + 2 x 10 + 60) and at most 170 ms
\* (three timeouts of 20 ms more), whatever the pings give.
C14_VisitDuration ==
  /\ visitMs <= 170
  /\ (pc = "for_inc") => visitMs >= 110

\* a visit in which every ping timed out has taken 170 ms
C14_Witness ==
  /\ pc = "for_inc" /\ visitMs = 170 /\ angle = 180
  /\ \A i \in 1..3 : du[i] = 0

----------------------------------------------------------------------------
(* C15 *)

\* C15: TRIG is HIGH only between the digitalWrite(TRIG, HIGH) of a ping and
\* the digitalWrite(TRIG, LOW) that follows it, a pulse of 10 microseconds
\* that comes after TRIG was driven LOW and before pulseIn is called; in every
\* other state, the echo measurement and all waits included, TRIG is LOW.
C15_TrigLowOutsidePulse ==
  /\ trig = "HIGH" <=> pc = "p_fall"
  /\ pinged => pulseUs = 10
  /\ (pc = "p_fall") => (Len(steps) > 0 /\ steps[Len(steps)] = Did("ping", ping))

\* the echo of the third ping of a visit is being measured, TRIG is LOW
C15_Witness ==
  pc = "p_echo" /\ ping = 3 /\ trig = "LOW" /\ pinged /\ pulseUs = 10

----------------------------------------------------------------------------
(* C16 *)

Permutations3 ==
  {q \in [1..3 -> 1..3] : {q[1], q[2], q[3]} = 1..3}

\* C16: the filter gives the same result for every order of its three inputs.
C16_MedianIgnoresOrder ==
  pc = "m_print" =>
    \A q \in Permutations3 :
      median3_ignoreNaN(d[q[1]], d[q[2]], d[q[3]]) = dmed

\* one valid value, as third argument, is returned
C16_Witness ==
  /\ pc = "m_print"
  /\ isnan(d[1]) /\ isnan(d[2]) /\ Valid(d[3]) /\ dmed = d[3]

----------------------------------------------------------------------------
(* C17 *)

\* C17: no duration pulseIn returns within its timeout of 20000 us is worth
\* more than 343 cm, so pingOnce returns NaN only for the duration 0 of a
\* timeout: the test d > 400 never decides.
C17_RangeTestNeverDecides ==
  \A i \in 1..3 :
    du[i] # Unset =>
      /\ du[i] * SOUND_UNITS_PER_US <= 343 * UNITS_PER_CM
      /\ isnan(d[i]) <=> du[i] = 0

\* the longest echo pulseIn can return gives 343 cm
C17_Witness ==
  /\ PingReturned /\ du[ping] = 20000 /\ d[ping] = 343 * UNITS_PER_CM

----------------------------------------------------------------------------
(* C18 *)

\* C18: two consecutive servo commands differ by at most one degree, from the
\* write(0) of setup() on, at both turnarounds and from one call of loop() to
\* the next.
C18_ServoStepsAtMostOne ==
  prevServo # NoAngle =>
    (servo - prevServo \in {-1, 0, 1})

\* the first command of the next call of loop(): 0 after 0
C18_Witness ==
  /\ pc = "m_settle" /\ phase = "asc" /\ prevPhase = "desc"
  /\ servo = 0 /\ prevServo = 0

====
